---------------------------- MODULE Spec2Model ----------------------------
(***************************************************************************)
(* Verification model of vakt's attribute-matching core:                   *)
(*   - vakt/checker.py: RegexChecker (with its lru_cache of compiled       *)
(*     patterns), StringChecker, StringExactChecker, StringFuzzyChecker    *)
(*   - vakt/conditions/string.py: StringPairsEqualCondition                *)
(*   - vakt/storage/observable.py: ObservableMutationStorage               *)
(*                                                                         *)
(* Python strings are modelled as sequences of one-character strings, so   *)
(* that indexing, slicing and containment are computed, not assumed.       *)
(***************************************************************************)
EXTENDS Integers, Sequences, FiniteSets, TLC

VARIABLES
    \* ---- RegexChecker ----
    cache_size,     \* maxsize given to lru_cache by RegexChecker.__init__
    cache,          \* the lru_cache: entries, most recently used first
    pc,             \* per thread: position inside RegexChecker.fits
    call,           \* per thread: arguments of the running fits call
    idx,            \* per thread: 1-based position of the for loop in `where`
    pattern,        \* per thread: value returned by compile_regex, before it is stored
    result,         \* per thread: outcome of the fits call
    compiledLive,   \* history: triples the compiler ran on and that were not evicted since
    overlapped,     \* history: two fits calls have been in progress at the same time
    useOrder,       \* history: the cached triples, least recently used first
    evicted,        \* history: triples that were evicted at some time
    \* ---- StringChecker ----
    strCall,        \* the last StringChecker.fits call: checker, policy, what
    strResult,      \* its outcome
    \* ---- StringPairsEqualCondition ----
    condWhat,       \* the `what` of the last satisfied(what, request) call
    condResult,     \* its outcome
    \* ---- ObservableMutationStorage ----
    store,          \* the wrapped storage: uid -> stored policy body
    observers,      \* Subject._observers, in subscription order
    lastCall        \* the last call on the wrapper and what happened during it

regexVars == <<cache_size, cache, pc, call, idx, pattern, result,
               compiledLive, overlapped, useOrder, evicted>>
stringVars == <<strCall, strResult>>
condVars == <<condWhat, condResult>>
obsVars == <<store, observers, lastCall>>

vars == <<regexVars, stringVars, condVars, obsVars>>

-----------------------------------------------------------------------------
(* Python str / list primitives                                            *)

Range(s) == {s[i] : i \in 1..Len(s)}

\* s[a:b] with 0-based, end-exclusive, already clamped indices
Slice(s, a, b) == IF b <= a THEN <<>> ELSE SubSeq(s, a + 1, b)

\* `needle in haystack` for str
str_contains(needle, haystack) ==
    \E k \in 0..(Len(haystack) - Len(needle)) :
        Slice(haystack, k, k + Len(needle)) = needle

\* all sequences over S of length 0..n
SeqsUpTo(S, n) == UNION {[1..k -> S] : k \in 0..n}


-----------------------------------------------------------------------------
(* The Pattern Compiler (vakt.parser.compile_regex)                        *)
(* and the use RegexChecker.fits makes of `re`.                            *)
(*                                                                         *)
(* A compiled pattern is a sequence of atoms: a literal character, "any"   *)
(* (the regex "." ) or "end" (the "$" anchor the compiler closes every     *)
(* pattern with, which is why "Dogger" does not fit <Dog[se]?>).           *)
(* The regex sources of the model use ".", "(" and ")" as metacharacters;  *)
(* every other character stands for itself.                                *)

Lit(c) == [k |-> "lit", c |-> c]
Dot == [k |-> "any", c |-> ""]
Dollar == [k |-> "end", c |-> ""]

NoPattern == <<>>

\* Scan `phrase` from position i. depth: nesting of tags (0 = literal text);
\* paren: open regex groups of the tagged part being read.
\* Fails (InvalidPatternError) on unbalanced tags or an invalid regex.
RECURSIVE parse_phrase(_, _, _, _, _, _, _)
parse_phrase(phrase, start_tag, end_tag, i, depth, paren, acc) ==
    IF i > Len(phrase)
    THEN IF depth = 0
         THEN [ok |-> TRUE, pattern |-> Append(acc, Dollar)]
         ELSE [ok |-> FALSE, pattern |-> NoPattern]
    ELSE LET c == phrase[i] IN
         IF depth = 0
         THEN IF c = start_tag
              THEN parse_phrase(phrase, start_tag, end_tag, i + 1, 1, 0, acc)
              ELSE IF c = end_tag
              THEN [ok |-> FALSE, pattern |-> NoPattern]
              ELSE parse_phrase(phrase, start_tag, end_tag, i + 1, 0, 0, Append(acc, Lit(c)))
         ELSE IF c = end_tag /\ depth = 1
              THEN IF paren = 0
                   THEN parse_phrase(phrase, start_tag, end_tag, i + 1, 0, 0, acc)
                   ELSE [ok |-> FALSE, pattern |-> NoPattern]
              ELSE IF c = end_tag
              THEN parse_phrase(phrase, start_tag, end_tag, i + 1, depth - 1, paren, Append(acc, Lit(c)))
              ELSE IF c = start_tag
              THEN parse_phrase(phrase, start_tag, end_tag, i + 1, depth + 1, paren, Append(acc, Lit(c)))
              ELSE IF c = "("
              THEN parse_phrase(phrase, start_tag, end_tag, i + 1, depth, paren + 1, acc)
              ELSE IF c = ")"
              THEN IF paren = 0
                   THEN [ok |-> FALSE, pattern |-> NoPattern]
                   ELSE parse_phrase(phrase, start_tag, end_tag, i + 1, depth, paren - 1, acc)
              ELSE IF c = "."
              THEN parse_phrase(phrase, start_tag, end_tag, i + 1, depth, paren, Append(acc, Dot))
              ELSE parse_phrase(phrase, start_tag, end_tag, i + 1, depth, paren, Append(acc, Lit(c)))

\* compile(pattern, start_tag, end_tag) -> matcher, or InvalidPatternError (ok = FALSE)
compile_regex(phrase, start_tag, end_tag) ==
    parse_phrase(phrase, start_tag, end_tag, 1, 0, 0, <<>>)

\* re.match(pattern, what): the pattern matches at the start of `what`
RECURSIVE match_from(_, _, _, _)
match_from(p, i, what, j) ==
    IF i > Len(p) THEN TRUE
    ELSE IF p[i].k = "end" THEN j > Len(what) /\ match_from(p, i + 1, what, j)
    ELSE IF j > Len(what) THEN FALSE
    ELSE IF p[i].k = "any" THEN match_from(p, i + 1, what, j + 1)
    ELSE p[i].c = what[j] /\ match_from(p, i + 1, what, j + 1)

re_match(p, what) == match_from(p, 1, what, 1)

-----------------------------------------------------------------------------
(* functools.lru_cache(maxsize=cache_size) around compile_regex            *)

Key(i, start_tag, end_tag) == [pattern |-> i, start_tag |-> start_tag, end_tag |-> end_tag]

CacheKeys(c) == {c[n].key : n \in 1..Len(c)}

CacheGet(c, key) == (CHOOSE n \in 1..Len(c) : c[n].key = key)

RemoveAt(s, n) == SubSeq(s, 1, n - 1) \o SubSeq(s, n + 1, Len(s))

\* variant: a hit returns the value and leaves the recency order alone
lru_hit_noreorder(c, key) == c

\* a hit moves the entry to the most-recently-used end
lru_hit(c, key) ==
    LET n == CacheGet(c, key) IN <<c[n]>> \o RemoveAt(c, n)

\* variant: the computed value is returned but never stored
lru_store_dropped(c, key, value, maxsize) == c

\* storing a computed value: nothing if the key got there meanwhile, else
\* insert as most recently used, dropping the oldest entry of a full cache
lru_store(c, key, value, maxsize) ==
    IF key \in CacheKeys(c) THEN c
    ELSE IF Len(c) >= maxsize
    THEN <<[key |-> key, value |-> value]>> \o SubSeq(c, 1, Len(c) - 1)
    ELSE <<[key |-> key, value |-> value]>> \o c

-----------------------------------------------------------------------------
(* RegexChecker                                                            *)

Threads == {1, 2}

NoCall == [start_tag |-> "", end_tag |-> "", has_field |-> FALSE, field |-> <<>>, what |-> <<>>]

\* where = getattr(policy, field, [])
Where(c) == IF c.has_field THEN c.field ELSE <<>>

\* variant: no shortcut for plain strings, every item goes to the compiler
IsLiteral_never(c, i) == FALSE

\* policy.start_tag not in i and policy.end_tag not in i
IsLiteral(c, i) == ~str_contains(<<c.start_tag>>, i) /\ ~str_contains(<<c.end_tag>>, i)

CurItem(t) == Where(call[t])[idx[t]]

CurKey(t) == Key(CurItem(t), call[t].start_tag, call[t].end_tag)

Running(t) == pc[t] \in {"loop", "compile", "store"}

\* history of uses: `key` becomes the most recently used
Used(order, key) == Append(SelectSeq(order, LAMBDA k : k # key), key)

StillCached(order, c) == SelectSeq(order, LAMBDA k : k \in CacheKeys(c))

\* RegexChecker(cache_size): an empty cache, no call in progress
RegexInit(sizes) ==
    /\ cache_size \in sizes
    /\ cache = <<>>
    /\ pc = [t \in Threads |-> "idle"]
    /\ call = [t \in Threads |-> NoCall]
    /\ idx = [t \in Threads |-> 0]
    /\ pattern = [t \in Threads |-> NoPattern]
    /\ result = [t \in Threads |-> "none"]
    /\ compiledLive = {}
    /\ overlapped = FALSE
    /\ useOrder = <<>>
    /\ evicted = {}

\* a caller enters fits(policy, field, what)
fits_call(t, c) ==
    /\ pc[t] = "idle"
    /\ pc' = [pc EXCEPT ![t] = "loop"]
    /\ call' = [call EXCEPT ![t] = c]
    /\ idx' = [idx EXCEPT ![t] = 1]
    /\ result' = [result EXCEPT ![t] = "none"]
    /\ overlapped' = (overlapped \/ \E u \in Threads \ {t} : Running(u))
    /\ UNCHANGED <<cache_size, cache, pattern, compiledLive, useOrder, evicted>>
    /\ UNCHANGED <<stringVars, condVars, obsVars>>

\* after the item at idx[t] was tested against `what` with outcome `hit`
AfterTest(t, hit) ==
    IF hit
    THEN /\ pc' = [pc EXCEPT ![t] = "done"]
         /\ result' = [result EXCEPT ![t] = "True"]
         /\ idx' = idx
    ELSE /\ pc' = [pc EXCEPT ![t] = "loop"]
         /\ result' = result
         /\ idx' = [idx EXCEPT ![t] = idx[t] + 1]

\* one turn of `for i in where`, up to the cache lookup of self.compile(...)
fits_loop(t) ==
    /\ pc[t] = "loop"
    /\ IF idx[t] > Len(Where(call[t]))
       THEN \* the loop is over: return False
            /\ pc' = [pc EXCEPT ![t] = "done"]
            /\ result' = [result EXCEPT ![t] = "False"]
            /\ UNCHANGED <<idx, cache, useOrder>>
       ELSE IF IsLiteral(call[t], CurItem(t))
       THEN \* a plain string: equal returns True, unequal continues
            /\ AfterTest(t, CurItem(t) = call[t].what)
            /\ UNCHANGED <<cache, useOrder>>
       ELSE IF CurKey(t) \in CacheKeys(cache)
       THEN \* cache hit: the entry becomes the most recently used
            /\ cache' = lru_hit(cache, CurKey(t))
            /\ useOrder' = Used(useOrder, CurKey(t))
            /\ AfterTest(t, re_match(cache[CacheGet(cache, CurKey(t))].value, call[t].what))
       ELSE \* cache miss: compile_regex is called next, outside the cache's lock
            /\ pc' = [pc EXCEPT ![t] = "compile"]
            /\ UNCHANGED <<idx, result, cache, useOrder>>
    /\ UNCHANGED <<cache_size, call, pattern, compiledLive, overlapped, evicted>>
    /\ UNCHANGED <<stringVars, condVars, obsVars>>

\* variant: a pattern that does not compile is skipped and the loop goes on
fits_compile_skip(t) ==
    /\ pc[t] = "compile"
    /\ LET r == compile_regex(CurItem(t), call[t].start_tag, call[t].end_tag) IN
       IF r.ok
       THEN /\ pattern' = [pattern EXCEPT ![t] = r.pattern]
            /\ pc' = [pc EXCEPT ![t] = "store"]
            /\ result' = result
            /\ idx' = idx
       ELSE /\ pattern' = pattern
            /\ AfterTest(t, FALSE)
    /\ compiledLive' = compiledLive \cup {CurKey(t)}
    /\ UNCHANGED <<cache_size, cache, call, overlapped, useOrder, evicted>>
    /\ UNCHANGED <<stringVars, condVars, obsVars>>

\* the call of compile_regex; InvalidPatternError is logged and fits returns False
fits_compile(t) ==
    /\ pc[t] = "compile"
    /\ LET r == compile_regex(CurItem(t), call[t].start_tag, call[t].end_tag) IN
       IF r.ok
       THEN /\ pattern' = [pattern EXCEPT ![t] = r.pattern]
            /\ pc' = [pc EXCEPT ![t] = "store"]
            /\ result' = result
       ELSE /\ pattern' = pattern
            /\ pc' = [pc EXCEPT ![t] = "done"]
            /\ result' = [result EXCEPT ![t] = "False"]
    /\ compiledLive' = compiledLive \cup {CurKey(t)}
    /\ UNCHANGED <<cache_size, cache, call, idx, overlapped, useOrder, evicted>>
    /\ UNCHANGED <<stringVars, condVars, obsVars>>

\* lru_cache stores the compiled pattern, then fits tests re.match(pattern, what)
fits_store(t) ==
    /\ pc[t] = "store"
    /\ cache' = lru_store(cache, CurKey(t), pattern[t], cache_size)
    /\ compiledLive' = compiledLive \ (CacheKeys(cache) \ CacheKeys(cache'))
    /\ evicted' = evicted \cup (CacheKeys(cache) \ CacheKeys(cache'))
    /\ useOrder' = IF CurKey(t) \in CacheKeys(cache) THEN useOrder
                   ELSE StillCached(Used(useOrder, CurKey(t)), cache')
    /\ pattern' = [pattern EXCEPT ![t] = NoPattern]
    /\ AfterTest(t, re_match(pattern[t], call[t].what))
    /\ UNCHANGED <<cache_size, call, overlapped>>
    /\ UNCHANGED <<stringVars, condVars, obsVars>>

\* the caller takes the result; the thread is free for the next call
fits_return(t) ==
    /\ pc[t] = "done"
    /\ pc' = [pc EXCEPT ![t] = "idle"]
    /\ call' = [call EXCEPT ![t] = NoCall]
    /\ idx' = [idx EXCEPT ![t] = 0]
    /\ result' = [result EXCEPT ![t] = "none"]
    /\ UNCHANGED <<cache_size, cache, pattern, compiledLive, overlapped, useOrder, evicted>>
    /\ UNCHANGED <<stringVars, condVars, obsVars>>


-----------------------------------------------------------------------------
(* StringChecker, StringExactChecker, StringFuzzyChecker                   *)

NoStrCall == [checker |-> "", start_tag |-> "", end_tag |-> "", has_field |-> FALSE,
              field |-> <<>>, what |-> <<>>]

\* StringExactChecker.compare / StringFuzzyChecker.compare
compare(checker, needle, haystack) ==
    IF checker = "exact" THEN needle = haystack
    ELSE str_contains(needle, haystack)

\* item[1:-1]
strip_tags(item) == Slice(item, 1, Len(item) - 1)

\* the for loop of StringChecker.fits from item n on. item[0] and item[-1]
\* raise IndexError on an empty string.
RECURSIVE string_fits_from(_, _)
string_fits_from(c, n) ==
    IF n > Len(Where(c)) THEN "False"
    ELSE LET item == Where(c)[n] IN
         IF Len(item) = 0 THEN "IndexError"
         ELSE LET haystack == IF c.start_tag = item[1] /\ c.end_tag = item[Len(item)]
                              THEN strip_tags(item)
                              ELSE item
              IN IF compare(c.checker, c.what, haystack) THEN "True"
                 ELSE string_fits_from(c, n + 1)

StringIdle ==
    /\ strCall = NoStrCall
    /\ strResult = "none"

\* StringChecker.fits(policy, field, what), on either subclass, for the
\* call held in strCall
string_fits ==
    /\ strCall # NoStrCall
    /\ strResult = "none"
    /\ strResult' = string_fits_from(strCall, 1)
    /\ UNCHANGED <<strCall, regexVars, condVars, obsVars>>

-----------------------------------------------------------------------------
(* StringPairsEqualCondition                                               *)

\* Python values: a str or an int; values of different types are unequal
Str(v) == [type |-> "str", v |-> v]
Int_(v) == [type |-> "int", v |-> v]

\* `what`: a list of pairs (themselves lists), or something that is no list
ListOf(pairs) == [type |-> "list", items |-> pairs]
NotAList(type) == [type |-> type, items |-> <<>>]

\* pair[0] != pair[1] on built-in values: a str never equals a non-str
py_ne(x, y) == x.type # y.type \/ x.v # y.v

\* variant: the pair's elements are never compared with each other
pair_rejected_nocompare(pair) ==
    \/ Len(pair) # 2
    \/ (pair[1].type # "str" /\ pair[2].type # "str")

\* one turn of the loop: the three `return False` tests, in order
pair_rejected(pair) ==
    IF Len(pair) # 2 THEN TRUE
    ELSE IF pair[1].type # "str" /\ pair[2].type # "str" THEN TRUE
    ELSE py_ne(pair[1], pair[2])

RECURSIVE satisfied_from(_, _)
satisfied_from(pairs, n) ==
    IF n > Len(pairs) THEN TRUE
    ELSE IF pair_rejected(pairs[n]) THEN FALSE
    ELSE satisfied_from(pairs, n + 1)

\* StringPairsEqualCondition.satisfied(what, request)
satisfied(what) ==
    IF what.type # "list" THEN FALSE
    ELSE satisfied_from(what.items, 1)

CondIdle ==
    /\ condWhat = NotAList("none")
    /\ condResult = "none"

\* the call satisfied(condWhat, request)
condition_satisfied ==
    /\ condWhat # NotAList("none")
    /\ condResult = "none"
    /\ condResult' = (IF satisfied(condWhat) THEN "True" ELSE "False")
    /\ UNCHANGED <<condWhat, regexVars, stringVars, obsVars>>

-----------------------------------------------------------------------------
(* ObservableMutationStorage                                               *)
(*                                                                         *)
(* The wrapped storage and the observers are collaborators: a storage call *)
(* either succeeds, with the effect and the result below, or raises one of *)
(* StoreErrors and changes nothing; an observer either returns or raises.  *)
(* What happens during a call is recorded as the call's trace of events.   *)

MaxUid == 2            \* policies have uids 1..MaxUid

Uids == 1..MaxUid
Bodies == {"x", "y"}
Observers == {"o1", "o2"}

Absent == ""
StoreErrors == {"PolicyExistsError", "IOError"}
ObserverError == "ObserverError"
Mutators == {"add", "update", "delete"}
Readers == {"get", "get_all", "find_for_inquiry"}

NoArg == [uid |-> 0, body |-> "", limit |-> 0, offset |-> 0]
PolicyArg(uid, body) == [NoArg EXCEPT !.uid = uid, !.body = body]
UidArg(uid) == [NoArg EXCEPT !.uid = uid]
PageArg(limit, offset) == [NoArg EXCEPT !.limit = limit, !.offset = offset]
InquiryArg(body) == [NoArg EXCEPT !.body = body]

Ev(e, who, ok, val, err) == [e |-> e, who |-> who, ok |-> ok, val |-> val, err |-> err]
StoreReturns(val) == Ev("store", "", TRUE, val, "")
StoreRaises(err) == Ev("store", "", FALSE, <<>>, err)
NotifyCalled == Ev("notify", "", TRUE, <<>>, "")
ObserverRan(o) == Ev("observer", o, TRUE, <<>>, "")
ObserverRaised(o) == Ev("observer", o, FALSE, <<>>, ObserverError)
Returns(val) == Ev("return", "", TRUE, val, "")
Raises(err) == Ev("raise", "", FALSE, <<>>, err)

NoObsCall == [op |-> "", arg |-> NoArg, trace |-> <<>>]

\* the stored policies, by ascending uid
RECURSIVE policies_from(_, _)
policies_from(st, uid) ==
    IF uid \notin DOMAIN st THEN <<>>
    ELSE (IF st[uid] = Absent THEN <<>> ELSE <<[uid |-> uid, body |-> st[uid]]>>)
         \o policies_from(st, uid + 1)

\* the storage after a successful add / update / delete
store_effect(op, arg, st) ==
    IF op = "delete" THEN [st EXCEPT ![arg.uid] = Absent]
    ELSE [st EXCEPT ![arg.uid] = arg.body]

\* the results a successful storage call can give
store_results(op, arg, st) ==
    IF op \in Mutators THEN {<<>>, <<[uid |-> arg.uid, body |-> "ack"]>>}
    ELSE IF op = "get" THEN {SelectSeq(policies_from(st, 1), LAMBDA q : q.uid = arg.uid)}
    ELSE IF op = "get_all"
    THEN {SubSeq(policies_from(st, 1), arg.offset + 1,
                 IF arg.offset + arg.limit < Len(policies_from(st, 1))
                 THEN arg.offset + arg.limit ELSE Len(policies_from(st, 1)))}
    ELSE {SelectSeq(policies_from(st, 1), LAMBDA q : q.body = arg.body)}

\* the errors a storage call can raise; add refuses a uid it already holds
store_errors(op, arg, st) == StoreErrors

store_must_fail(op, arg, st) == op = "add" /\ st[arg.uid] # Absent

\* Subject.notify(): the observers are called in list order; failAt = 0:
\* none raises; failAt = k: the k-th raises and the error leaves notify
notify(obs, failAt) ==
    <<NotifyCalled>> \o
    [k \in 1..(IF failAt = 0 THEN Len(obs) ELSE failAt) |->
        IF k = failAt THEN ObserverRaised(obs[k]) ELSE ObserverRan(obs[k])]

\* variant: notify() is called before the storage
mutation_notify_first(op, arg) ==
    \E failAt \in 0..Len(observers) :
        /\ observers' = observers
        /\ IF failAt # 0
           THEN /\ store' = store
                /\ lastCall' = [op |-> op, arg |-> arg,
                                trace |-> notify(observers, failAt) \o <<Raises(ObserverError)>>]
           ELSE \/ /\ ~store_must_fail(op, arg, store)
                   /\ \E res \in store_results(op, arg, store) :
                        /\ store' = store_effect(op, arg, store)
                        /\ lastCall' = [op |-> op, arg |-> arg,
                                        trace |-> notify(observers, 0)
                                                  \o <<StoreReturns(res), Returns(res)>>]
                \/ \E err \in store_errors(op, arg, store) :
                        /\ store' = store
                        /\ lastCall' = [op |-> op, arg |-> arg,
                                        trace |-> notify(observers, 0)
                                                  \o <<StoreRaises(err), Raises(err)>>]
    /\ UNCHANGED <<regexVars, stringVars, condVars>>

\* variant: notify() is called in a `finally`, so also when the storage raised
mutation_notify_always(op, arg) ==
    /\ observers' = observers
    /\ \/ /\ ~store_must_fail(op, arg, store)
          /\ \E res \in store_results(op, arg, store), failAt \in 0..Len(observers) :
               /\ store' = store_effect(op, arg, store)
               /\ lastCall' = [op |-> op, arg |-> arg,
                               trace |-> <<StoreReturns(res)>> \o notify(observers, failAt)
                                         \o <<IF failAt = 0 THEN Returns(res)
                                              ELSE Raises(ObserverError)>>]
       \/ \E err \in store_errors(op, arg, store), failAt \in 0..Len(observers) :
               /\ store' = store
               /\ lastCall' = [op |-> op, arg |-> arg,
                               trace |-> <<StoreRaises(err)>> \o notify(observers, failAt)
                                         \o <<IF failAt = 0 THEN Raises(err)
                                              ELSE Raises(ObserverError)>>]
    /\ UNCHANGED <<regexVars, stringVars, condVars>>

\* variant: an observer's error is caught and the storage's result returned
mutation_isolating(op, arg) ==
    /\ observers' = observers
    /\ \/ /\ ~store_must_fail(op, arg, store)
          /\ \E res \in store_results(op, arg, store), failAt \in 0..Len(observers) :
               /\ store' = store_effect(op, arg, store)
               /\ lastCall' = [op |-> op, arg |-> arg,
                               trace |-> <<StoreReturns(res)>> \o notify(observers, failAt)
                                         \o <<Returns(res)>>]
       \/ \E err \in store_errors(op, arg, store) :
               /\ store' = store
               /\ lastCall' = [op |-> op, arg |-> arg,
                               trace |-> <<StoreRaises(err), Raises(err)>>]
    /\ UNCHANGED <<regexVars, stringVars, condVars>>

\* add / update / delete:
\*     res = self.storage.<op>(arg); self.notify(); return res
\* An exception of the storage leaves before notify(); an exception of an
\* observer leaves notify() and the method, after the storage has changed.
mutation(op, arg) ==
    /\ observers' = observers
    /\ \/ /\ ~store_must_fail(op, arg, store)
          /\ \E res \in store_results(op, arg, store), failAt \in 0..Len(observers) :
               /\ store' = store_effect(op, arg, store)
               /\ lastCall' = [op |-> op, arg |-> arg,
                               trace |-> <<StoreReturns(res)>> \o notify(observers, failAt)
                                         \o <<IF failAt = 0 THEN Returns(res)
                                              ELSE Raises(ObserverError)>>]
       \/ \E err \in store_errors(op, arg, store) :
               /\ store' = store
               /\ lastCall' = [op |-> op, arg |-> arg,
                               trace |-> <<StoreRaises(err), Raises(err)>>]
    /\ UNCHANGED <<regexVars, stringVars, condVars>>

add(policy) == mutation("add", policy)

update(policy) == mutation("update", policy)

delete(uid) == mutation("delete", UidArg(uid))

\* variant: the read methods notify like the mutating ones
delegation_notifying(op, arg) ==
    /\ observers' = observers
    /\ store' = store
    /\ \/ \E res \in store_results(op, arg, store) :
               lastCall' = [op |-> op, arg |-> arg,
                            trace |-> <<StoreReturns(res)>> \o notify(observers, 0)
                                      \o <<Returns(res)>>]
       \/ \E err \in store_errors(op, arg, store) :
               lastCall' = [op |-> op, arg |-> arg,
                            trace |-> <<StoreRaises(err), Raises(err)>>]
    /\ UNCHANGED <<regexVars, stringVars, condVars>>

\* get / get_all / find_for_inquiry: return self.storage.<op>(...)
delegation(op, arg) ==
    /\ observers' = observers
    /\ store' = store
    /\ \/ \E res \in store_results(op, arg, store) :
               lastCall' = [op |-> op, arg |-> arg,
                            trace |-> <<StoreReturns(res), Returns(res)>>]
       \/ \E err \in store_errors(op, arg, store) :
               lastCall' = [op |-> op, arg |-> arg,
                            trace |-> <<StoreRaises(err), Raises(err)>>]
    /\ UNCHANGED <<regexVars, stringVars, condVars>>

get(uid) == delegation("get", UidArg(uid))

get_all(limit, offset) == delegation("get_all", PageArg(limit, offset))

find_for_inquiry(inquiry) == delegation("find_for_inquiry", InquiryArg(inquiry))

ObsIdle ==
    /\ store = [u \in Uids |-> Absent]
    /\ observers = <<>>
    /\ lastCall = NoObsCall

\* Subject.subscribe(observer): appended, unless it is subscribed already
subscribe(o) ==
    /\ observers' = IF o \in Range(observers) THEN observers ELSE Append(observers, o)
    /\ lastCall' = [op |-> "subscribe", arg |-> NoArg, trace |-> <<>>]
    /\ UNCHANGED <<store, regexVars, stringVars, condVars>>

\* Subject.unsubscribe(observer)
unsubscribe(o) ==
    /\ observers' = SelectSeq(observers, LAMBDA x : x # o)
    /\ lastCall' = [op |-> "unsubscribe", arg |-> NoArg, trace |-> <<>>]
    /\ UNCHANGED <<store, regexVars, stringVars, condVars>>

-----------------------------------------------------------------------------
(* Inputs and specifications                                               *)

MaxField == 2          \* longest policy field (number of pattern items)
MaxFieldConc == 1      \* the same, for the two-thread specification
MaxCacheSize == 2      \* largest cache_size a RegexChecker is built with

s_a == <<"a">>
s_b == <<"b">>
p_a == <<"<", "a", ">">>        \* <a>
p_b == <<"<", "b", ">">>        \* <b>
p_dot == <<"<", ".", ">">>      \* <.>
p_badre == <<"<", "(", ">">>    \* <(> : the regex "(" does not compile
p_badtag == <<"a", ">">>        \* a>  : an end tag that was never opened

Patterns == {s_a, s_b, p_a, p_b, p_dot, p_badre, p_badtag}
PatternsConc == {p_a, p_b, p_badre}
Whats == {s_a, s_b}

\* the policies given to fits: tags < and >, the field present or missing
Calls(patterns, n, whats) ==
    {[start_tag |-> "<", end_tag |-> ">", has_field |-> TRUE, field |-> f, what |-> w] :
        f \in SeqsUpTo(patterns, n), w \in whats}
    \cup {[start_tag |-> "<", end_tag |-> ">", has_field |-> FALSE, field |-> <<>>, what |-> w] :
        w \in whats}

FitsCalls == Calls(Patterns, MaxField, Whats)
FitsCallsConc == Calls(PatternsConc, MaxFieldConc, {s_a})

\* ---- one caller at a time ----
InitFits == RegexInit(1..MaxCacheSize) /\ StringIdle /\ CondIdle /\ ObsIdle

NextFits ==
    \/ pc[1] = "idle" /\ \E c \in FitsCalls : fits_call(1, c)
    \/ fits_loop(1)
    \/ fits_compile(1)
    \/ fits_store(1)
    \/ fits_return(1)

SpecFits == InitFits /\ [][NextFits]_vars

\* ---- two concurrent callers ----
InitConc == RegexInit(1..MaxCacheSize) /\ StringIdle /\ CondIdle /\ ObsIdle

NextConc ==
    \E t \in Threads :
        \/ pc[t] = "idle" /\ \E c \in FitsCallsConc : fits_call(t, c)
        \/ fits_loop(t)
        \/ fits_compile(t)
        \/ fits_store(t)
        \/ fits_return(t)

SpecConc == InitConc /\ [][NextConc]_vars


\* ---- StringExactChecker and StringFuzzyChecker ----
s_empty == <<>>
s_lt == <<"<">>
s_ab == <<"a", "b">>
p_open == <<"<", "a">>          \* <a

StringItems == {s_empty, s_lt, s_a, s_ab, p_a, p_open}
StringWhats == {s_empty, s_a, p_a}
TagPairs == {<<"<", ">">>, <<"<", "<">>}

StringCalls ==
    {[checker |-> k, start_tag |-> tg[1], end_tag |-> tg[2], has_field |-> TRUE,
      field |-> f, what |-> w] :
        k \in {"exact", "fuzzy"}, tg \in TagPairs,
        f \in SeqsUpTo(StringItems, MaxField), w \in StringWhats}
    \cup {[checker |-> k, start_tag |-> tg[1], end_tag |-> tg[2], has_field |-> FALSE,
           field |-> <<>>, what |-> w] :
        k \in {"exact", "fuzzy"}, tg \in TagPairs, w \in StringWhats}

InitString ==
    /\ strCall \in StringCalls
    /\ strResult = "none"
    /\ RegexInit({1}) /\ CondIdle /\ ObsIdle

NextString == string_fits

SpecString == InitString /\ [][NextString]_vars

\* ---- StringPairsEqualCondition ----
MaxPairs == 3          \* longest list given as `what`

PairPool ==
    { <<Str("a"), Str("a")>>, <<Str("b"), Str("b")>>, <<Str("a"), Str("b")>>,
      <<Int_("1"), Int_("1")>>, <<Int_("1"), Int_("2")>>,
      <<Str("a"), Int_("1")>>, <<Int_("1"), Str("a")>>,
      <<>>, <<Str("a")>>, <<Str("a"), Str("a"), Str("a")>> }

CondWhats ==
    {ListOf(ps) : ps \in SeqsUpTo(PairPool, MaxPairs)}
    \cup {NotAList("str"), NotAList("int"), NotAList("NoneType")}

InitCond ==
    /\ condWhat \in CondWhats
    /\ condResult = "none"
    /\ RegexInit({1}) /\ StringIdle /\ ObsIdle

NextCond == condition_satisfied

SpecCond == InitCond /\ [][NextCond]_vars

\* ---- ObservableMutationStorage ----
InitObs == RegexInit({1}) /\ StringIdle /\ CondIdle /\ ObsIdle

NextObs ==
    \/ \E u \in Uids, b \in Bodies : add(PolicyArg(u, b))
    \/ \E u \in Uids, b \in Bodies : update(PolicyArg(u, b))
    \/ \E u \in Uids : delete(u)
    \/ \E u \in Uids : get(u)
    \/ \E l \in 0..MaxUid, o \in 0..MaxUid : get_all(l, o)
    \/ \E b \in Bodies : find_for_inquiry(b)
    \/ \E o \in Observers : subscribe(o)
    \/ \E o \in Observers : unsubscribe(o)

SpecObs == InitObs /\ [][NextObs]_vars

-----------------------------------------------------------------------------
(* Properties of RegexChecker                                              *)

\* what the claims call a literal item: neither tag occurs anywhere in it
NoTags(c, i) == \A n \in 1..Len(i) : i[n] # c.start_tag /\ i[n] # c.end_tag

\* item i of the call accepts `what`
Accepts(c, i) ==
    IF NoTags(c, i) THEN i = c.what
    ELSE /\ compile_regex(i, c.start_tag, c.end_tag).ok
         /\ re_match(compile_regex(i, c.start_tag, c.end_tag).pattern, c.what)

\* item i of the call is tagged and does not compile
FailsToCompile(c, i) == ~NoTags(c, i) /\ ~compile_regex(i, c.start_tag, c.end_tag).ok

\* position j holds the first compile error, and no earlier item accepted `what`
FirstErrorAt(c, j) ==
    /\ j \in 1..Len(Where(c))
    /\ FailsToCompile(c, Where(c)[j])
    /\ \A n \in 1..(j - 1) : ~FailsToCompile(c, Where(c)[n]) /\ ~Accepts(c, Where(c)[n])

\* C4: fits is fail-closed on the first compile error. When the first item
\* that fails to compile comes before any item that accepts `what`, the
\* call returns False, the loop stopped at that item (nothing after it was
\* examined or compiled), and the call ends with a boolean, never with the
\* compilation error.
C4_FailClosed ==
    \A t \in Threads :
        /\ result[t] \in {"none", "True", "False"}
        /\ pc[t] = "done" => result[t] \in {"True", "False"}
        /\ \A j \in 1..Len(Where(call[t])) :
              FirstErrorAt(call[t], j) =>
                  /\ idx[t] <= j
                  /\ pc[t] = "done" => (result[t] = "False" /\ idx[t] = j)

\* C4 witness: <(> fails to compile in front of <a>, which would match "a"
C4_Witness ==
    /\ pc[1] = "done"
    /\ call[1].has_field
    /\ call[1].field = <<p_badre, p_a>>
    /\ call[1].what = s_a
    /\ result[1] = "False"
    /\ idx[1] = 1

\* C5 as stated: the compiler runs at most once per triple until the triple
\* is evicted, whether the fits calls are sequential or concurrent.
C5_CompileOnce ==
    [][\A t \in Threads :
          (pc[t] = "compile" /\ pc'[t] # "compile") => CurKey(t) \notin compiledLive]_vars

\* C5 amended: as long as no two fits calls have overlapped, a triple whose
\* compilation succeeds is compiled at most once until its entry is evicted.
C5_CompileOnceSequential ==
    [][\A t \in Threads :
          ( /\ pc[t] = "compile" /\ pc'[t] # "compile"
            /\ ~overlapped
            /\ compile_regex(CurItem(t), call[t].start_tag, call[t].end_tag).ok )
          => CurKey(t) \notin compiledLive]_vars

\* C5 witness: with no overlap so far, a thread is about to compile a valid
\* triple for the second time, after its entry was evicted
C5_Witness ==
    \E t \in Threads :
        /\ pc[t] = "compile"
        /\ ~overlapped
        /\ CurKey(t) \in evicted
        /\ CurKey(t) \notin compiledLive
        /\ compile_regex(CurItem(t), call[t].start_tag, call[t].end_tag).ok

\* two overlapping calls that both missed compile the same valid triple twice
C5_ConcurrentDoubleCompile ==
    \E t \in Threads :
        /\ pc[t] = "compile"
        /\ CurKey(t) \in compiledLive
        /\ CurKey(t) \notin evicted
        /\ compile_regex(CurItem(t), call[t].start_tag, call[t].end_tag).ok

\* C6: the cache never holds more than cache_size entries; an entry leaves
\* the cache only when a new triple is stored into a full cache, and it is
\* then exactly the least recently used one (a hit counts as a use); a
\* tagged item whose triple is not cached goes to the compiler.
C6_LruBounded ==
    /\ [](Len(cache) <= cache_size /\ Cardinality(CacheKeys(cache)) = Len(cache))
    /\ [][CacheKeys(cache) \ CacheKeys(cache') # {} =>
            /\ Len(cache) = cache_size
            /\ CacheKeys(cache) \ CacheKeys(cache') = {Head(useOrder)}
            /\ Cardinality(CacheKeys(cache') \ CacheKeys(cache)) = 1]_vars
    /\ [][\A t \in Threads :
            ( /\ pc[t] = "loop" /\ pc'[t] # "loop"
              /\ idx[t] <= Len(Where(call[t]))
              /\ ~NoTags(call[t], CurItem(t))
              /\ CurKey(t) \notin CacheKeys(cache) )
            => pc'[t] = "compile"]_vars

\* C6 witness: a full cache of two entries, and the triple that was evicted
\* from it is being compiled again
C6_Witness ==
    /\ cache_size = 2
    /\ Len(cache) = 2
    /\ pc[1] = "compile"
    /\ CurKey(1) \in evicted
    /\ Cardinality(evicted) = 1

\* the call's items are all plain strings (a missing field has no items)
AllLiteral(c) == \A n \in 1..Len(Where(c)) : NoTags(c, Where(c)[n])

\* C7: for a field whose items contain neither tag, fits is true exactly
\* when `what` is an element of the list (so false for a missing or empty
\* field); the compiler is not invoked and the cache is not changed.
C7_LiteralField ==
    /\ [](\A t \in Threads :
            (pc[t] # "idle" /\ AllLiteral(call[t])) =>
                /\ pc[t] \notin {"compile", "store"}
                /\ pc[t] = "done" =>
                      (result[t] = "True") = (call[t].what \in Range(Where(call[t])))
                /\ pc[t] = "done" => result[t] \in {"True", "False"})
    /\ [][(pc[1] # "idle" /\ AllLiteral(call[1])) => cache' = cache]_vars

\* C7 witness: a literal field whose second item equals `what`, with a
\* non-empty cache left as it was
C7_Witness ==
    /\ pc[1] = "done"
    /\ call[1].has_field
    /\ call[1].field = <<s_b, s_a>>
    /\ call[1].what = s_a
    /\ result[1] = "True"
    /\ Len(cache) > 0


-----------------------------------------------------------------------------
(* Properties of StringChecker                                             *)

\* the item as the claim compares it: without its first and last character
\* when these are the start tag and the end tag, unchanged otherwise
Untagged(c, item) ==
    IF Len(item) > 0 /\ item[1] = c.start_tag /\ item[Len(item)] = c.end_tag
    THEN SubSeq(item, 2, Len(item) - 1)
    ELSE item

\* C9: for any field of strings, the empty string and one-character strings
\* included, fits returns a boolean without raising: True exactly when some
\* item, untagged, satisfies compare(what, item).
C9_StringFitsTotal ==
    strResult # "none" =>
        /\ strResult \in {"True", "False"}
        /\ (strResult = "True") =
              (\E n \in 1..Len(Where(strCall)) :
                  compare(strCall.checker, strCall.what, Untagged(strCall, Where(strCall)[n])))

\* the same, for fields without an empty string: holds
StringFitsNonEmptyItems ==
    (strResult # "none" /\ \A n \in 1..Len(Where(strCall)) : Len(Where(strCall)[n]) > 0) =>
        /\ strResult \in {"True", "False"}
        /\ (strResult = "True") =
              (\E n \in 1..Len(Where(strCall)) :
                  compare(strCall.checker, strCall.what, Untagged(strCall, Where(strCall)[n])))

-----------------------------------------------------------------------------
(* Properties of StringPairsEqualCondition                                 *)

\* C8: satisfied is true exactly when `what` is a list of 2-element
\* sequences whose two elements are both strings and equal; a pair of
\* another length, a non-string element or an unequal pair makes it false.
C8_PairsEqual ==
    condResult # "none" =>
        /\ condResult \in {"True", "False"}
        /\ (condResult = "True") =
              ( /\ condWhat.type = "list"
                /\ \A n \in 1..Len(condWhat.items) :
                      LET pair == condWhat.items[n] IN
                      /\ Len(pair) = 2
                      /\ pair[1].type = "str"
                      /\ pair[2].type = "str"
                      /\ pair[1].v = pair[2].v )

\* C8 witness: a pair with one string and one non-string element, which the
\* type test lets through and the comparison rejects
C8_Witness ==
    /\ condResult = "False"
    /\ condWhat = ListOf(<<<<Str("a"), Str("a")>>, <<Str("a"), Int_("1")>>>>)

-----------------------------------------------------------------------------
(* Properties of ObservableMutationStorage                                 *)

Trace == lastCall.trace
Final == Trace[Len(Trace)]
Positions(e) == {n \in 1..Len(Trace) : Trace[n].e = e}
ObserverEvents == SelectSeq(Trace, LAMBDA ev : ev.e = "observer")
StoreSucceeded == \E n \in Positions("store") : Trace[n].ok
StoreFailed == \E n \in Positions("store") : ~Trace[n].ok

\* exactly one notify(), after the storage call and before the result
NotifiedOnceInPlace ==
    /\ Cardinality(Positions("store")) = 1
    /\ Cardinality(Positions("notify")) = 1
    /\ Final.e \in {"return", "raise"}
    /\ \A s \in Positions("store"), n \in Positions("notify") : s < n /\ n < Len(Trace)
    /\ \A n \in Positions("notify"), o \in Positions("observer") : n < o /\ o < Len(Trace)

\* C1 as stated: after a successful add / update / delete, one notify() ran
\* in place and it invoked the subscribed observers, all of them, in
\* subscription order.
C1_NotifyAll ==
    (lastCall.op \in Mutators /\ StoreSucceeded) =>
        /\ NotifiedOnceInPlace
        /\ Len(ObserverEvents) = Len(observers)
        /\ \A k \in 1..Len(ObserverEvents) : ObserverEvents[k].who = observers[k]

\* C1 amended: after a successful add / update / delete, one notify() ran
\* in place and it invoked the subscribed observers in subscription order,
\* up to and including the first one that raised; all of them when none
\* raised.
C1_NotifyInOrder ==
    (lastCall.op \in Mutators /\ StoreSucceeded) =>
        /\ NotifiedOnceInPlace
        /\ Len(ObserverEvents) <= Len(observers)
        /\ \A k \in 1..Len(ObserverEvents) : ObserverEvents[k].who = observers[k]
        /\ \A k \in 1..(Len(ObserverEvents) - 1) : ObserverEvents[k].ok
        /\ (\A k \in 1..Len(ObserverEvents) : ObserverEvents[k].ok)
              => Len(ObserverEvents) = Len(observers)

\* C1 witness: two subscribers, a successful update, both invoked in order
C1_Witness ==
    /\ lastCall.op = "update"
    /\ StoreSucceeded
    /\ observers = <<"o2", "o1">>
    /\ Len(ObserverEvents) = 2
    /\ ObserverEvents[1] = ObserverRan("o2")
    /\ ObserverEvents[2] = ObserverRan("o1")
    /\ Final.e = "return"

\* C2: when the storage's add / update / delete raises, no observer is
\* invoked (notify() is not called), the caller gets the storage's error,
\* and the subscriber list is what it was.
C2_FailureNotNotified ==
    /\ []((lastCall.op \in Mutators /\ StoreFailed) =>
            /\ Positions("notify") = {}
            /\ Positions("observer") = {}
            /\ Len(Trace) = 2
            /\ Final = Raises(Trace[1].err))
    /\ [][(lastCall'.op \in Mutators /\ StoreFailed') => observers' = observers]_vars

\* C2 witness: two subscribers, and a delete on which the storage raised
C2_Witness ==
    /\ lastCall.op = "delete"
    /\ StoreFailed
    /\ Final = Raises("IOError")
    /\ Len(observers) = 2

\* C3: get, get_all and find_for_inquiry only delegate: no notify(), no
\* observer invoked, the storage's result or error handed on as it is, and
\* the subscriber list (and the storage) left as they were.
C3_ReadsDelegate ==
    /\ [](lastCall.op \in Readers =>
            /\ Positions("notify") = {}
            /\ Positions("observer") = {}
            /\ Len(Trace) = 2
            /\ Trace[1].e = "store"
            /\ Final = (IF Trace[1].ok THEN Returns(Trace[1].val) ELSE Raises(Trace[1].err)))
    /\ [][lastCall'.op \in Readers => (observers' = observers /\ store' = store)]_vars

\* C3 witness: with a subscriber, get_all returned the one stored policy
C3_Witness ==
    /\ lastCall.op = "get_all"
    /\ Len(observers) > 0
    /\ Final.e = "return"
    /\ Len(Final.val) = 1

ObserverFailed == \E k \in 1..Len(ObserverEvents) : ~ObserverEvents[k].ok

\* C10: when an observer raises during the notification after a successful
\* add / update / delete, the caller gets the observer's error instead of
\* the storage's result, and the storage keeps the mutation.
C10_ObserverFailurePropagates ==
    (lastCall.op \in Mutators /\ StoreSucceeded /\ ObserverFailed) =>
        /\ Final = Raises(ObserverError)
        /\ store = store_effect(lastCall.op, lastCall.arg, store)

\* C10 witness: add succeeded in the storage, the first of two observers
\* raised, the caller got the error and the policy is stored
C10_Witness ==
    /\ lastCall.op = "add"
    /\ StoreSucceeded
    /\ Len(observers) = 2
    /\ Len(ObserverEvents) = 1
    /\ ObserverFailed
    /\ Final.e = "raise"
    /\ store[lastCall.arg.uid] = lastCall.arg.body

=============================================================================
